---- MODULE Spec2Model ----
(***************************************************************************)
(* A model of keyword_formatter.py: main() reads two word-list files,      *)
(* splits each on whitespace and prints two blocks of quoted entries       *)
(* followed by a closing message.                                          *)
(*                                                                         *)
(* Text is modelled as a sequence of one-character strings; standard       *)
(* output is the sequence of lines written by print(), each line without   *)
(* its terminating newline.  sys.argv[k] is argv[k + 1].                   *)
(***************************************************************************)
EXTENDS Integers, Sequences, FiniteSets

VARIABLES
    argv,                 \* sys.argv: program name followed by the arguments
    fs,                   \* the file system: path -> [kind, data]
    pc,                   \* position of main()
    primary_file,         \* the handle bound by the first with statement
    secondary_file,       \* the handle bound by the second with statement
    primary_word_list,
    secondary_word_list,
    word_index,           \* number of words the running for loop has consumed
    stdout,               \* lines written so far
    exception,            \* the exception in flight, "None" when there is none
    exit_code,            \* the process exit status, NoExit while running
    run,                  \* 1 in the first invocation, 2 in the repeated one
    first_run             \* what the first invocation left behind

vars == <<argv, fs, pc, primary_file, secondary_file, primary_word_list,
          secondary_word_list, word_index, stdout, exception, exit_code,
          run, first_run>>

(***************************************************************************)
(* Bounds of the model.                                                    *)
(***************************************************************************)
MaxLenA == 3       \* longest content of file "p1"
MaxLenB == 2       \* longest content of file "p2"
MaxSplitLen == 4   \* longest content in the tokenizer specification

(***************************************************************************)
(* Text.                                                                   *)
(***************************************************************************)
RECURSIVE SeqsUpTo(_, _)
SeqsUpTo(S, n) ==
    IF n = 0 THEN {<<>>}
    ELSE LET shorter == SeqsUpTo(S, n - 1)
         IN  shorter \cup {Append(s, c) : s \in {t \in shorter : Len(t) = n - 1}, c \in S}

\* The characters str.isspace() accepts, among those the model uses.
Whitespace == {" ", "\t", "\n", "\r", "\f"}

IsSpace(c) == c \in Whitespace

\* Text-mode reading with newline=None: "\r\n" and a lone "\r" become "\n".
RECURSIVE UniversalNewlines(_)
UniversalNewlines(s) ==
    IF s = <<>> THEN <<>>
    ELSE IF Head(s) = "\r"
         THEN <<"\n">> \o UniversalNewlines(IF Len(s) > 1 /\ s[2] = "\n"
                                            THEN Tail(Tail(s)) ELSE Tail(s))
         ELSE <<Head(s)>> \o UniversalNewlines(Tail(s))

\* First position >= i of s that holds a non-whitespace character (Len(s)+1 if none).
RECURSIVE SkipSpace(_, _)
SkipSpace(s, i) ==
    IF i <= Len(s) /\ IsSpace(s[i]) THEN SkipSpace(s, i + 1) ELSE i

\* First position >= i of s that holds a whitespace character (Len(s)+1 if none).
RECURSIVE SkipWord(_, _)
SkipWord(s, i) ==
    IF i <= Len(s) /\ ~IsSpace(s[i]) THEN SkipWord(s, i + 1) ELSE i

\* First position >= i of s that holds a space (Len(s)+1 if none).
RECURSIVE FindSpace(_, _)
FindSpace(s, i) ==
    IF i <= Len(s) /\ s[i] # " " THEN FindSpace(s, i + 1) ELSE i

RECURSIVE SplitOnEachSpace(_, _, _)
SplitOnEachSpace(s, i, acc) ==
    LET j == FindSpace(s, i)
    IN  IF j > Len(s) THEN Append(acc, SubSeq(s, i, Len(s)))
        ELSE SplitOnEachSpace(s, j + 1, Append(acc, SubSeq(s, i, j - 1)))

\* A plausible slip: split(" ") cuts at every single space and keeps empty tokens.
split_on_space(s) == SplitOnEachSpace(s, 1, <<>>)

\* str.split() with no separator: skip a whitespace run, take a maximal run
\* of non-whitespace as a token, repeat until the end of the text.
RECURSIVE split_whitespace(_, _, _)
split_whitespace(s, i, acc) ==
    LET j == SkipSpace(s, i)
        k == SkipWord(s, j)
    IN  IF j > Len(s) THEN acc
        ELSE split_whitespace(s, k, Append(acc, SubSeq(s, j, k - 1)))

split(s) == split_whitespace(s, 1, <<>>)

\* file.read().split()
ReadWords(data) == split(UniversalNewlines(data))

(***************************************************************************)
(* The printed lines.                                                      *)
(***************************************************************************)
PrimaryOpenLine ==
    <<"p", "r", "i", "m", "a", "r", "y", "_", "k", "e", "y", "w", "o", "r", "d",
      "s", ":", " ", "v", "e", "c", "!", "[">>

SecondaryOpenLine ==
    <<"s", "e", "c", "o", "n", "d", "a", "r", "y", "_", "k", "e", "y", "w", "o",
      "r", "d", "s", ":", " ", "v", "e", "c", "!", "[">>

BlockCloseLine == <<"]", ",">>

ClosingMessage ==
    <<"Y", "o", "u", " ", "c", "a", "n", " ", "n", "o", "w", " ", "a", "d", "d",
      " ", "t", "h", "e", " ", "k", "e", "y", "w", "o", "r", "d", "s", " ", "t",
      "o", " ", "t", "h", "e", " ", "s", "r", "c", "/", "f", "i", "l", "e", "t",
      "y", "p", "e", ".", "r", "s", " ", "f", "o", "l", "d", "e", "r", ".">>

\* A plausible slip: the token's quotes and backslashes are escaped.
RECURSIVE Escaped(_)
Escaped(w) ==
    IF w = <<>> THEN <<>>
    ELSE (IF Head(w) \in {"\"", "\\"} THEN <<"\\", Head(w)>> ELSE <<Head(w)>>)
         \o Escaped(Tail(w))

KeywordLineEscaping(word) ==
    <<"\t", "\"">> \o Escaped(word)
        \o <<"\"", ".", "t", "o", "_", "s", "t", "r", "i", "n", "g", "(", ")", ",">>

\* f'\t"{word}".to_string(),'
KeywordLine(word) ==
    <<"\t", "\"">> \o word
        \o <<"\"", ".", "t", "o", "_", "s", "t", "r", "i", "n", "g", "(", ")", ",">>

(***************************************************************************)
(* Files and handles.                                                      *)
(***************************************************************************)
ProgramName == "keyword_formatter.py"

Paths == {"p1", "p2"}

AlphabetA == {"a", " ", "\n", "\""}
AlphabetB == {"b", "\t", "\\"}
SplitAlphabet == {"a", "\"", " ", "\t", "\n", "\r", "\f"}

TextFile(data) == [kind |-> "text", data |-> data]

\* A path that names nothing, a file without read permission, and a file
\* whose bytes are not valid in the default encoding.
BadFiles == {[kind |-> k, data |-> <<>>] : k \in {"missing", "denied", "binary"}}

FilesUpTo(alphabet, n) == {TextFile(d) : d \in SeqsUpTo(alphabet, n)} \cup BadFiles

Unbound == [state |-> "unbound", pos |-> 0]

\* The exit status of a process that has not ended.
NoExit == -1

\* A plausible slip: the file is opened for update with truncation.
FileModeTruncating == "w+"

\* The mode both open() calls pass.
FileMode == "r"

\* What opening in the given mode does to the file itself.
OpenEffect(file, mode) ==
    IF mode = "r" THEN file ELSE [file EXCEPT !.data = <<>>]

\* The OSError open() raises for the file, "None" if it opens.
OpenError(file) ==
    CASE file.kind = "missing" -> "FileNotFoundError"
      [] file.kind = "denied"  -> "PermissionError"
      [] OTHER                 -> "None"

\* The error read() raises for the file, "None" if it decodes.
ReadError(file) ==
    IF file.kind = "binary" THEN "UnicodeDecodeError" ELSE "None"

\* An uncaught exception ends the process with status 1.
Terminate(exc) ==
    /\ exception' = exc
    /\ exit_code' = 1
    /\ pc' = "exited"

(***************************************************************************)
(* main(), one action per step.  Lines 4 and 8 (the empty-list             *)
(* assignments) are part of the step that precedes them.                   *)
(***************************************************************************)
Locals == <<primary_file, secondary_file, primary_word_list,
            secondary_word_list, word_index>>

Inputs == <<argv, fs, run, first_run>>

\* print(line): the line is appended to standard output.
print(line) == stdout' = Append(stdout, line)

\* A plausible slip: the header is printed before the files are read.
AccessArgv1PrintingFirst ==
    /\ pc = "argv1"
    /\ print(PrimaryOpenLine)
    /\ IF Len(argv) > 1
       THEN pc' = "open1" /\ UNCHANGED <<exception, exit_code>>
       ELSE Terminate("IndexError")
    /\ UNCHANGED <<Inputs, Locals>>

\* Line 5: sys.argv[1].
AccessArgv1 ==
    /\ pc = "argv1"
    /\ IF Len(argv) > 1
       THEN pc' = "open1" /\ UNCHANGED <<exception, exit_code>>
       ELSE Terminate("IndexError")
    /\ UNCHANGED <<Inputs, Locals, stdout>>

\* Line 5: open(sys.argv[1], "r") and entry into the with block.
OpenPrimary ==
    /\ pc = "open1"
    /\ IF OpenError(fs[argv[2]]) = "None"
       THEN /\ fs' = [fs EXCEPT ![argv[2]] = OpenEffect(@, FileMode)]
            /\ primary_file' = [state |-> "open", pos |-> 0]
            /\ pc' = "read1"
            /\ UNCHANGED <<exception, exit_code>>
       ELSE /\ Terminate(OpenError(fs[argv[2]]))
            /\ UNCHANGED <<fs, primary_file>>
    /\ UNCHANGED <<argv, run, first_run, secondary_file, primary_word_list,
                   secondary_word_list, word_index, stdout>>

\* Line 6: primary_word_list = primary_file.read().split().
ReadPrimary ==
    /\ pc = "read1"
    /\ IF ReadError(fs[argv[2]]) = "None"
       THEN /\ primary_word_list' = ReadWords(fs[argv[2]].data)
            /\ primary_file' = [primary_file EXCEPT !.pos = Len(fs[argv[2]].data)]
            /\ UNCHANGED exception
       ELSE /\ exception' = ReadError(fs[argv[2]])
            /\ UNCHANGED <<primary_word_list, primary_file>>
    /\ pc' = "exit_with1"
    /\ UNCHANGED <<Inputs, secondary_file, secondary_word_list, word_index,
                   stdout, exit_code>>

\* A plausible slip: the handle is closed only when the block ends normally.
ExitWithPrimaryLeaking ==
    /\ pc = "exit_with1"
    /\ IF exception = "None"
       THEN /\ primary_file' = [primary_file EXCEPT !.state = "closed"]
            /\ pc' = "argv2"
            /\ secondary_word_list' = <<>>
            /\ UNCHANGED <<exception, exit_code>>
       ELSE /\ Terminate(exception)
            /\ UNCHANGED <<primary_file, secondary_word_list>>
    /\ UNCHANGED <<Inputs, secondary_file, primary_word_list, word_index, stdout>>

\* Lines 5-8: leaving the with block closes the file, whether the block ended
\* normally or by an exception, which then propagates out of main().
ExitWithPrimary ==
    /\ pc = "exit_with1"
    /\ primary_file' = [primary_file EXCEPT !.state = "closed"]
    /\ IF exception = "None"
       THEN /\ pc' = "argv2"
            /\ secondary_word_list' = <<>>
            /\ UNCHANGED <<exception, exit_code>>
       ELSE /\ Terminate(exception)
            /\ UNCHANGED secondary_word_list
    /\ UNCHANGED <<Inputs, secondary_file, primary_word_list, word_index, stdout>>

\* A plausible slip: a missing second argument is treated as an empty list.
AccessArgv2Defaulting ==
    /\ pc = "argv2"
    /\ pc' = IF Len(argv) > 2 THEN "open2" ELSE "print_primary_open"
    /\ UNCHANGED <<Inputs, Locals, stdout, exception, exit_code>>

\* Line 9: sys.argv[2].
AccessArgv2 ==
    /\ pc = "argv2"
    /\ IF Len(argv) > 2
       THEN pc' = "open2" /\ UNCHANGED <<exception, exit_code>>
       ELSE Terminate("IndexError")
    /\ UNCHANGED <<Inputs, Locals, stdout>>

\* A plausible slip: a file that cannot be opened is skipped.
OpenSecondaryIgnoringErrors ==
    /\ pc = "open2"
    /\ IF OpenError(fs[argv[3]]) = "None"
       THEN /\ secondary_file' = [state |-> "open", pos |-> 0]
            /\ pc' = "read2"
       ELSE /\ pc' = "print_primary_open"
            /\ UNCHANGED secondary_file
    /\ UNCHANGED <<Inputs, primary_file, primary_word_list, secondary_word_list,
                   word_index, stdout, exception, exit_code>>

\* Line 9: open(sys.argv[2], "r") and entry into the with block.
OpenSecondary ==
    /\ pc = "open2"
    /\ IF OpenError(fs[argv[3]]) = "None"
       THEN /\ fs' = [fs EXCEPT ![argv[3]] = OpenEffect(@, FileMode)]
            /\ secondary_file' = [state |-> "open", pos |-> 0]
            /\ pc' = "read2"
            /\ UNCHANGED <<exception, exit_code>>
       ELSE /\ Terminate(OpenError(fs[argv[3]]))
            /\ UNCHANGED <<fs, secondary_file>>
    /\ UNCHANGED <<argv, run, first_run, primary_file, primary_word_list,
                   secondary_word_list, word_index, stdout>>

\* Line 10: secondary_word_list = secondary_file.read().split().
ReadSecondary ==
    /\ pc = "read2"
    /\ IF ReadError(fs[argv[3]]) = "None"
       THEN /\ secondary_word_list' = ReadWords(fs[argv[3]].data)
            /\ secondary_file' = [secondary_file EXCEPT !.pos = Len(fs[argv[3]].data)]
            /\ UNCHANGED exception
       ELSE /\ exception' = ReadError(fs[argv[3]])
            /\ UNCHANGED <<secondary_word_list, secondary_file>>
    /\ pc' = "exit_with2"
    /\ UNCHANGED <<Inputs, primary_file, primary_word_list, word_index,
                   stdout, exit_code>>

\* Lines 9-10: leaving the second with block closes the file on either path.
ExitWithSecondary ==
    /\ pc = "exit_with2"
    /\ secondary_file' = [secondary_file EXCEPT !.state = "closed"]
    /\ IF exception = "None"
       THEN pc' = "print_primary_open" /\ UNCHANGED <<exception, exit_code>>
       ELSE Terminate(exception)
    /\ UNCHANGED <<Inputs, primary_file, primary_word_list, secondary_word_list,
                   word_index, stdout>>

\* A plausible slip: the wrapper is printed only for a non-empty list.
PrintPrimaryOpenUnlessEmpty ==
    /\ pc = "print_primary_open"
    /\ IF primary_word_list = <<>>
       THEN pc' = "print_secondary_open" /\ UNCHANGED stdout
       ELSE pc' = "primary_loop" /\ print(PrimaryOpenLine)
    /\ word_index' = 0
    /\ UNCHANGED <<Inputs, primary_file, secondary_file, primary_word_list,
                   secondary_word_list, exception, exit_code>>

\* Line 12: print("primary_keywords: vec![").
PrintPrimaryOpen ==
    /\ pc = "print_primary_open"
    /\ print(PrimaryOpenLine)
    /\ pc' = "primary_loop"
    /\ word_index' = 0
    /\ UNCHANGED <<Inputs, primary_file, secondary_file, primary_word_list,
                   secondary_word_list, exception, exit_code>>

\* A plausible slip: a word equal to the one before it is not printed again.
PrintPrimaryWordOnce ==
    /\ pc = "primary_loop"
    /\ IF word_index < Len(primary_word_list)
       THEN /\ IF word_index > 0
                  /\ primary_word_list[word_index + 1] = primary_word_list[word_index]
               THEN UNCHANGED stdout
               ELSE print(KeywordLine(primary_word_list[word_index + 1]))
            /\ word_index' = word_index + 1
            /\ UNCHANGED pc
       ELSE /\ pc' = "print_primary_close"
            /\ UNCHANGED <<stdout, word_index>>
    /\ UNCHANGED <<Inputs, primary_file, secondary_file, primary_word_list,
                   secondary_word_list, exception, exit_code>>

\* Lines 13-14: one turn of the loop over primary_word_list: the next word is
\* printed, or the list is exhausted and the loop ends.
PrintPrimaryWord ==
    /\ pc = "primary_loop"
    /\ IF word_index < Len(primary_word_list)
       THEN /\ print(KeywordLine(primary_word_list[word_index + 1]))
            /\ word_index' = word_index + 1
            /\ UNCHANGED pc
       ELSE /\ pc' = "print_primary_close"
            /\ UNCHANGED <<stdout, word_index>>
    /\ UNCHANGED <<Inputs, primary_file, secondary_file, primary_word_list,
                   secondary_word_list, exception, exit_code>>

\* Line 15: print("],").
PrintPrimaryClose ==
    /\ pc = "print_primary_close"
    /\ print(BlockCloseLine)
    /\ pc' = "print_secondary_open"
    /\ UNCHANGED <<Inputs, Locals, exception, exit_code>>

\* A plausible slip: the second block repeats the first block's label.
PrintSecondaryOpenMislabelled ==
    /\ pc = "print_secondary_open"
    /\ print(PrimaryOpenLine)
    /\ pc' = "secondary_loop"
    /\ word_index' = 0
    /\ UNCHANGED <<Inputs, primary_file, secondary_file, primary_word_list,
                   secondary_word_list, exception, exit_code>>

\* Line 17: print("secondary_keywords: vec![").
PrintSecondaryOpen ==
    /\ pc = "print_secondary_open"
    /\ print(SecondaryOpenLine)
    /\ pc' = "secondary_loop"
    /\ word_index' = 0
    /\ UNCHANGED <<Inputs, primary_file, secondary_file, primary_word_list,
                   secondary_word_list, exception, exit_code>>

\* Lines 18-19: one turn of the loop over secondary_word_list.
PrintSecondaryWord ==
    /\ pc = "secondary_loop"
    /\ IF word_index < Len(secondary_word_list)
       THEN /\ print(KeywordLine(secondary_word_list[word_index + 1]))
            /\ word_index' = word_index + 1
            /\ UNCHANGED pc
       ELSE /\ pc' = "print_secondary_close"
            /\ UNCHANGED <<stdout, word_index>>
    /\ UNCHANGED <<Inputs, primary_file, secondary_file, primary_word_list,
                   secondary_word_list, exception, exit_code>>

\* Line 20: print("],").
PrintSecondaryClose ==
    /\ pc = "print_secondary_close"
    /\ print(BlockCloseLine)
    /\ pc' = "print_message"
    /\ UNCHANGED <<Inputs, Locals, exception, exit_code>>

\* Line 22 and the return from main(): the closing message, then exit status 0.
PrintMessage ==
    /\ pc = "print_message"
    /\ print(ClosingMessage)
    /\ pc' = "exited"
    /\ exit_code' = 0
    /\ UNCHANGED <<Inputs, Locals, exception>>

\* Lines 24-25 and 4: the script is invoked again with the same arguments on
\* the file system the first invocation left; nothing but the files carries over.
Rerun ==
    /\ pc = "exited"
    /\ run = 1
    /\ run' = 2
    /\ first_run' = [stdout |-> stdout, exit_code |-> exit_code,
                     exception |-> exception]
    /\ pc' = "argv1"
    /\ primary_file' = Unbound
    /\ secondary_file' = Unbound
    /\ primary_word_list' = <<>>
    /\ secondary_word_list' = <<>>
    /\ word_index' = 0
    /\ stdout' = <<>>
    /\ exception' = "None"
    /\ exit_code' = NoExit
    /\ UNCHANGED <<argv, fs>>

(***************************************************************************)
(* Specifications.                                                         *)
(***************************************************************************)
\* The state as main() is entered and line 4 has run.
Entry ==
    /\ pc = "argv1"
    /\ primary_file = Unbound
    /\ secondary_file = Unbound
    /\ primary_word_list = <<>>
    /\ secondary_word_list = <<>>
    /\ word_index = 0
    /\ stdout = <<>>
    /\ exception = "None"
    /\ exit_code = NoExit
    /\ run = 1
    /\ first_run = [stdout |-> <<>>, exit_code |-> NoExit, exception |-> "None"]

\* The command lines: no argument, one path, two paths in either order.
CommandLines ==
    {<<ProgramName>>, <<ProgramName, "p1">>, <<ProgramName, "p2">>,
     <<ProgramName, "p1", "p2">>, <<ProgramName, "p2", "p1">>}

Init ==
    /\ argv \in CommandLines
    /\ \E a \in FilesUpTo(AlphabetA, MaxLenA), b \in FilesUpTo(AlphabetB, MaxLenB) :
           fs = [p \in Paths |-> IF p = "p1" THEN a ELSE b]
    /\ Entry

Step ==
    \/ AccessArgv1
    \/ OpenPrimary
    \/ ReadPrimary
    \/ ExitWithPrimary
    \/ AccessArgv2
    \/ OpenSecondary
    \/ ReadSecondary
    \/ ExitWithSecondary
    \/ PrintPrimaryOpen
    \/ PrintPrimaryWord
    \/ PrintPrimaryClose
    \/ PrintSecondaryOpen
    \/ PrintSecondaryWord
    \/ PrintSecondaryClose
    \/ PrintMessage

Next == Step \/ Rerun

Spec == Init /\ [][Next]_vars

\* Single runs under fairness: every step of main() is taken once it can be,
\* as the interpreter does not stop.  The file "p2" is one of a few short files.
ShortFiles ==
    {TextFile(<<>>), TextFile(<<"b">>), TextFile(<<"\\", "\t", "b">>)} \cup BadFiles

FairInit ==
    /\ argv \in CommandLines
    /\ \E a \in FilesUpTo(AlphabetA, MaxLenA), b \in ShortFiles :
           fs = [p \in Paths |-> IF p = "p1" THEN a ELSE b]
    /\ Entry

FairSpec == FairInit /\ [][Step]_vars /\ WF_vars(Step)

\* The tokenizer on its own: one file over a wider alphabet, read by lines 5-6.
SplitInit ==
    /\ argv = <<ProgramName, "p1">>
    /\ \E d \in SeqsUpTo(SplitAlphabet, MaxSplitLen) :
           fs = [p \in Paths |-> IF p = "p1" THEN TextFile(d) ELSE TextFile(<<>>)]
    /\ Entry

SplitNext == AccessArgv1 \/ OpenPrimary \/ ReadPrimary

SplitSpec == SplitInit /\ [][SplitNext]_vars

(***************************************************************************)
(* Vocabulary of the properties.                                           *)
(***************************************************************************)
Exited == pc = "exited"

\* The files the first and the second argument name (when supplied).
PrimaryInput == fs[argv[2]]
SecondaryInput == fs[argv[3]]

\* Both paths supplied and both files readable as text.
GoodInputs ==
    /\ Len(argv) >= 3
    /\ PrimaryInput.kind = "text"
    /\ SecondaryInput.kind = "text"

Lines(words) == [i \in 1..Len(words) |-> KeywordLine(words[i])]

Count(line) == Cardinality({i \in 1..Len(stdout) : stdout[i] = line})

IsPrefix(s, u) == Len(s) <= Len(u) /\ s = SubSeq(u, 1, Len(s))

\* The complete output for two word lists.
FullOutput(w1, w2) ==
    <<PrimaryOpenLine>> \o Lines(w1) \o <<BlockCloseLine>>
        \o <<SecondaryOpenLine>> \o Lines(w2) \o <<BlockCloseLine>>
        \o <<ClosingMessage>>

\* Position of the first line equal to the given one (0 if there is none).
FirstIndex(line) ==
    IF \E i \in 1..Len(stdout) : stdout[i] = line
    THEN CHOOSE i \in 1..Len(stdout) :
             stdout[i] = line /\ \A j \in 1..(i - 1) : stdout[j] # line
    ELSE 0

\* Position of the first "]," after position i (0 if there is none).
CloseAfter(i) ==
    IF \E k \in (i + 1)..Len(stdout) : stdout[k] = BlockCloseLine
    THEN CHOOSE k \in (i + 1)..Len(stdout) :
             stdout[k] = BlockCloseLine
             /\ \A j \in (i + 1)..(k - 1) : stdout[j] # BlockCloseLine
    ELSE 0

\* The lines strictly between an opening marker and the "]," that follows it.
BlockOf(marker) ==
    LET o == FirstIndex(marker)
        c == CloseAfter(o)
    IN  IF o = 0 \/ c = 0 THEN <<>> ELSE SubSeq(stdout, o + 1, c - 1)

\* What is left of a per-word line without its two leading and its
\* fourteen trailing characters.
Payload(line) == SubSeq(line, 3, Len(line) - 14)

AllSpace(data) == \A i \in 1..Len(data) : data[i] \in Whitespace

NonSpace(c) == c \notin Whitespace

RECURSIVE Concat(_)
Concat(ws) == IF ws = <<>> THEN <<>> ELSE Head(ws) \o Concat(Tail(ws))

\* Number of maximal runs of non-whitespace characters.
WordStarts(data) ==
    Cardinality({i \in 1..Len(data) :
                    NonSpace(data[i]) /\ (i = 1 \/ ~NonSpace(data[i - 1]))})

(***************************************************************************)
(* C1: in every run with both paths supplied and both files readable,      *)
(* what has been written is at all times a prefix of, and at exit exactly, *)
(* the opening line of the primary block, the primary entries, "],", the   *)
(* opening line of the secondary block, the secondary entries, "],", and   *)
(* the closing message; the two opening lines and the message occur once,  *)
(* and the first "]," comes right after the last primary entry.            *)
(***************************************************************************)
C1_OutputLayout ==
    GoodInputs =>
        LET w1 == ReadWords(PrimaryInput.data)
            w2 == ReadWords(SecondaryInput.data)
        IN  /\ IsPrefix(stdout, FullOutput(w1, w2))
            /\ Exited =>
                 /\ exit_code = 0
                 /\ stdout = FullOutput(w1, w2)
                 /\ Count(PrimaryOpenLine) = 1
                 /\ Count(SecondaryOpenLine) = 1
                 /\ Count(ClosingMessage) = 1
                 /\ Count(BlockCloseLine) = 2
                 /\ FirstIndex(PrimaryOpenLine) = 1
                 /\ FirstIndex(BlockCloseLine) = Len(w1) + 2
                 /\ FirstIndex(SecondaryOpenLine) = Len(w1) + 3
                 /\ FirstIndex(ClosingMessage) = Len(stdout)
                 /\ \A i \in (Len(w1) + 3)..Len(stdout) :
                        stdout[i] \in {SecondaryOpenLine, BlockCloseLine, ClosingMessage}
                        \/ \E k \in 1..Len(w2) : stdout[i] = KeywordLine(w2[k])

C1_Witness ==
    /\ Exited
    /\ exit_code = 0
    /\ Len(primary_word_list) = 2
    /\ Len(secondary_word_list) = 1
    /\ Len(stdout) = 8

(***************************************************************************)
(* C2: when both files hold at least one word, the primary block has as    *)
(* many entries as the primary file has words and its i-th entry carries   *)
(* the i-th word, and likewise for the secondary block: file order,        *)
(* duplicates kept.                                                        *)
(***************************************************************************)
C2_EntriesFollowFile ==
    (Exited /\ GoodInputs) =>
        LET w1 == ReadWords(PrimaryInput.data)
            w2 == ReadWords(SecondaryInput.data)
            b1 == BlockOf(PrimaryOpenLine)
            b2 == BlockOf(SecondaryOpenLine)
        IN  (w1 # <<>> /\ w2 # <<>>) =>
                /\ Len(b1) = Len(w1)
                /\ \A i \in 1..Len(w1) : Payload(b1[i]) = w1[i]
                /\ Len(b2) = Len(w2)
                /\ \A i \in 1..Len(w2) : Payload(b2[i]) = w2[i]

\* The primary file holds the same word twice.
C2_Witness ==
    /\ Exited
    /\ GoodInputs
    /\ Len(primary_word_list) = 2
    /\ primary_word_list[1] = primary_word_list[2]
    /\ secondary_word_list # <<>>
    /\ Len(BlockOf(PrimaryOpenLine)) = 2

(***************************************************************************)
(* C3: the word list read from a file has no empty word and no word with   *)
(* a whitespace character, has one word per maximal run of non-whitespace  *)
(* characters, and its words concatenated are the content without its      *)
(* whitespace; the content "a   b<tab>c<newline>d" gives [a, b, c, d].     *)
(***************************************************************************)
C3_Example == <<"a", " ", " ", " ", "b", "\t", "c", "\n", "d">>

C3_SplitOnWhitespace ==
    /\ ReadWords(C3_Example) = << <<"a">>, <<"b">>, <<"c">>, <<"d">> >>
    /\ pc = "exit_with1" =>
         LET data == PrimaryInput.data
             words == primary_word_list
         IN  /\ \A i \in 1..Len(words) :
                    /\ words[i] # <<>>
                    /\ \A k \in 1..Len(words[i]) : NonSpace(words[i][k])
             /\ Len(words) = WordStarts(data)
             /\ Concat(words) = SelectSeq(data, NonSpace)

\* Two words separated by a run of two different whitespace characters.
C3_Witness ==
    /\ pc = "exit_with1"
    /\ PrimaryInput.data = <<"a", " ", "\t", "\"">>
    /\ primary_word_list = << <<"a">>, <<"\"">> >>

(***************************************************************************)
(* C4: a file that is empty or holds only whitespace gives a block with    *)
(* its opening line and its "]," and nothing between them, while the other *)
(* block and the closing message are what they are for any file.           *)
(***************************************************************************)
C4_EmptyBlock ==
    (Exited /\ GoodInputs) =>
        LET w1 == ReadWords(PrimaryInput.data)
            w2 == ReadWords(SecondaryInput.data)
        IN  /\ AllSpace(PrimaryInput.data) =>
                 /\ exit_code = 0
                 /\ Len(stdout) >= 2
                 /\ stdout[1] = PrimaryOpenLine
                 /\ stdout[2] = BlockCloseLine
                 /\ SubSeq(stdout, 3, Len(stdout)) =
                        <<SecondaryOpenLine>> \o Lines(w2)
                            \o <<BlockCloseLine, ClosingMessage>>
            /\ AllSpace(SecondaryInput.data) =>
                 /\ exit_code = 0
                 /\ Len(stdout) = Len(w1) + 5
                 /\ SubSeq(stdout, 1, Len(w1) + 2) =
                        <<PrimaryOpenLine>> \o Lines(w1) \o <<BlockCloseLine>>
                 /\ SubSeq(stdout, Len(w1) + 3, Len(stdout)) =
                        <<SecondaryOpenLine, BlockCloseLine, ClosingMessage>>

\* A whitespace-only primary file next to a secondary file with a word.
C4_Witness ==
    /\ Exited
    /\ GoodInputs
    /\ PrimaryInput.data # <<>>
    /\ AllSpace(PrimaryInput.data)
    /\ secondary_word_list # <<>>
    /\ Len(stdout) = 6

(***************************************************************************)
(* C5 as stated: a run with a single path argument ends with a non-zero    *)
(* exit status from an index error, whatever the path names, and writes    *)
(* nothing.                                                                *)
(***************************************************************************)
C5_AlwaysIndexError ==
    (Len(argv) = 2 /\ Exited) =>
        /\ exit_code # 0
        /\ exception = "IndexError"
        /\ stdout = <<>>

(***************************************************************************)
(* C5 as the code has it: a run with a single path argument writes nothing *)
(* and ends with a non-zero exit status; the error is the index error of   *)
(* the missing second argument when the first file opens and decodes, and  *)
(* the first file's own open or decoding error otherwise.                  *)
(***************************************************************************)
C5_OneArgumentFails ==
    Len(argv) = 2 =>
        /\ stdout = <<>>
        /\ Exited =>
             /\ exit_code # 0
             /\ exit_code # NoExit
             /\ exception =
                  CASE PrimaryInput.kind = "text"    -> "IndexError"
                    [] PrimaryInput.kind = "missing" -> "FileNotFoundError"
                    [] PrimaryInput.kind = "denied"  -> "PermissionError"
                    [] PrimaryInput.kind = "binary"  -> "UnicodeDecodeError"

\* The first file was read and closed, then the second argument was missed.
C5_Witness ==
    /\ Len(argv) = 2
    /\ Exited
    /\ exception = "IndexError"
    /\ primary_file.state = "closed"
    /\ primary_word_list # <<>>

(***************************************************************************)
(* C6: a run whose first or second path names a file that does not exist   *)
(* or cannot be read ends with a non-zero exit status and without the      *)
(* opening line of that file's block; a failed open ends the run in that   *)
(* very step, an exception in flight lets no further line be written and   *)
(* ends the run, and within a run written lines are never taken back.      *)
(***************************************************************************)
C6_AtExit ==
    Exited =>
        /\ (Len(argv) >= 2 /\ PrimaryInput.kind # "text") =>
               /\ exit_code = 1
               /\ Count(PrimaryOpenLine) = 0
        /\ (Len(argv) >= 3 /\ SecondaryInput.kind # "text") =>
               /\ exit_code = 1
               /\ Count(SecondaryOpenLine) = 0

C6_Step ==
    /\ (pc = "open1" /\ PrimaryInput.kind \in {"missing", "denied"}) =>
           (pc' = "exited" /\ exit_code' = 1 /\ stdout' = stdout)
    /\ (pc = "open2" /\ SecondaryInput.kind \in {"missing", "denied"}) =>
           (pc' = "exited" /\ exit_code' = 1 /\ stdout' = stdout)
    /\ (exception # "None" /\ run' = run) =>
           (pc' = "exited" /\ exit_code' = 1 /\ stdout' = stdout)
    /\ run' = run => IsPrefix(stdout, stdout')

C6_FailedFileEndsRun == [](C6_AtExit) /\ [][C6_Step]_vars

\* The first file was read; the second one is not there.
C6_Witness ==
    /\ Exited
    /\ Len(argv) = 3
    /\ PrimaryInput.kind = "text"
    /\ primary_word_list # <<>>
    /\ SecondaryInput.kind = "missing"
    /\ exception = "FileNotFoundError"
    /\ exit_code = 1

(***************************************************************************)
(* C7: while a line is being written or has been written, both files have  *)
(* been opened, read to their end and closed; no handle is open when the   *)
(* process has ended, however it ended; a handle is open only inside its   *)
(* own with block.                                                         *)
(***************************************************************************)
Printing ==
    pc \in {"print_primary_open", "primary_loop", "print_primary_close",
            "print_secondary_open", "secondary_loop", "print_secondary_close",
            "print_message"}

C7_HandlesScoped ==
    /\ (Printing \/ stdout # <<>>) =>
           /\ primary_file = [state |-> "closed", pos |-> Len(PrimaryInput.data)]
           /\ secondary_file = [state |-> "closed", pos |-> Len(SecondaryInput.data)]
    /\ Exited =>
           /\ primary_file.state \in {"unbound", "closed"}
           /\ secondary_file.state \in {"unbound", "closed"}
    /\ primary_file.state = "open" <=> pc \in {"read1", "exit_with1"}
    /\ secondary_file.state = "open" <=> pc \in {"read2", "exit_with2"}

\* The read of the first file failed and its handle was closed all the same.
C7_Witness ==
    /\ Exited
    /\ exception = "UnicodeDecodeError"
    /\ primary_file.state = "closed"
    /\ secondary_file.state = "unbound"

(***************************************************************************)
(* C8: a second run on the same arguments ends with the output and exit    *)
(* status of the first, and no step of either run changes a file.          *)
(***************************************************************************)
C8_SecondRunSame ==
    (run = 2 /\ Exited) =>
        /\ stdout = first_run.stdout
        /\ exit_code = first_run.exit_code
        /\ exception = first_run.exception

C8_Repeatable == [](C8_SecondRunSame) /\ [][fs' = fs]_vars

C8_Witness ==
    /\ run = 2
    /\ Exited
    /\ exit_code = 0
    /\ Len(stdout) = 8
    /\ first_run.stdout = stdout

(***************************************************************************)
(* C9: every entry is a tab, a double quote, the word exactly as it stands *)
(* in the file, a double quote and ".to_string(),", and nothing else; a    *)
(* double quote or a backslash inside the word is written as it is.        *)
(***************************************************************************)
C9_Form(line, word) ==
    /\ Len(line) = Len(word) + 16
    /\ line[1] = "\t"
    /\ line[2] = "\""
    /\ \A k \in 1..Len(word) : line[2 + k] = word[k]
    /\ SubSeq(line, Len(word) + 3, Len(line)) =
           <<"\"", ".", "t", "o", "_", "s", "t", "r", "i", "n", "g", "(", ")", ",">>

C9_EntryForm ==
    LET n == Len(primary_word_list)
    IN  \A i \in 1..Len(stdout) :
            /\ (2 <= i /\ i <= n + 1) => C9_Form(stdout[i], primary_word_list[i - 1])
            /\ (n + 4 <= i /\ i <= n + 3 + Len(secondary_word_list)) =>
                   C9_Form(stdout[i], secondary_word_list[i - n - 3])

\* One entry holds a double quote, another a backslash.
C9_Witness ==
    /\ Exited
    /\ exit_code = 0
    /\ \E i \in 1..Len(stdout) : stdout[i] = KeywordLine(<<"a", "\"">>)
    /\ \E i \in 1..Len(stdout) : stdout[i] = KeywordLine(<<"\\", "b">>)

(***************************************************************************)
(* C10: a line is on standard output only if both arguments were supplied  *)
(* and both files were opened, read to their end and closed without error, *)
(* the primary before the secondary; a run that ends with a non-zero exit  *)
(* status has written nothing; and a run that has written its first line   *)
(* goes on to exit with status 0 and the closing message as its last line. *)
(***************************************************************************)
C10_NothingBeforeInputs ==
    /\ stdout # <<>> =>
           /\ Len(argv) >= 3
           /\ primary_file = [state |-> "closed", pos |-> Len(PrimaryInput.data)]
           /\ secondary_file = [state |-> "closed", pos |-> Len(SecondaryInput.data)]
           /\ exception = "None"
           /\ exit_code \in {NoExit, 0}
           /\ stdout[1] = PrimaryOpenLine
    /\ secondary_file.state # "unbound" => primary_file.state = "closed"
    /\ (Exited /\ exit_code # 0) => stdout = <<>>
    /\ (Exited /\ exit_code = 0) => stdout[Len(stdout)] = ClosingMessage

C10_Completes ==
    (stdout # <<>>) ~>
        (Exited /\ exit_code = 0 /\ stdout # <<>> /\ stdout[Len(stdout)] = ClosingMessage)

C10_AllOrNothing == [](C10_NothingBeforeInputs) /\ C10_Completes

\* The last possible failure: the second file does not decode.
C10_Witness ==
    /\ Exited
    /\ exit_code = 1
    /\ exception = "UnicodeDecodeError"
    /\ primary_word_list # <<>>
    /\ secondary_file.state = "closed"
    /\ stdout = <<>>

====
